---- MODULE Spec2Model ----
(***************************************************************************)
(* O-1A assessment service: the /assess endpoint (main.py) and the hybrid  *)
(* evaluation engine (core.py): rule_based_scan, extract_section,          *)
(* validate_with_llm / validate_match / query_llm and calculate_ratings.   *)
(*                                                                         *)
(* Granularity of text.  A document is a sequence of lexical items of      *)
(* equal width: a word followed by a delimiter ("Award,") or a blank line  *)
(* ("\n\n", which is white space).  Offsets, slices and window sizes are   *)
(* counted in items, so the widths 200, 250 and 1000 of the source are     *)
(* scaled down to WindowSize, SectionLen and PrefixLen items.  A replied   *)
(* text of the oracle is a sequence of characters, because validate_match  *)
(* searches it for the substring "yes".                                    *)
(***************************************************************************)
EXTENDS Integers, Sequences, FiniteSets, TLC

VARIABLES
    pc,                 \* position of the request: idle, validate, done, rejected, failed
    status,             \* HTTP status of the response (0: none yet)
    text,               \* text returned by process_cv
    rule_matches,       \* rule_based_scan(text)
    llm_validated,      \* validate_with_llm: criterion -> confirmed entries
    ci,                 \* index in LLM_PROMPTS.keys() of the criterion in work
    mi,                 \* index of the next rule match to validate
    validated_matches,  \* validate_with_llm: local list of the criterion in work
    ratings,            \* (rule_rating, llm_rating, combined) of calculate_ratings
    result,             \* the AssessmentResult returned, once done
    lastCall,           \* history: the last oracle call (criterion, excerpt, failed)
    oracleSeen,         \* history: none, yes, failed (all calls so far alike) or mixed
    fallbacks,          \* history: section-fallback calls made, per criterion
    calls               \* history: candidate matches submitted to the oracle

vars == <<pc, status, text, rule_matches, llm_validated, ci, mi,
          validated_matches, ratings, result, lastCall, oracleSeen, fallbacks,
          calls>>

-----------------------------------------------------------------------------
(* Bounds *)

MaxLen == 3          \* items in a document
WindowSize == 1      \* get_context_window(text, pos, 200), in items
SectionLen == 1      \* context[:250], in items
PrefixLen == 2       \* full_text[:1000], in items
MaxCandidates == 5   \* candidate matches in an input of calculate_ratings
MaxConfirmed == 3    \* confirmed matches in an input of calculate_ratings

-----------------------------------------------------------------------------
(* Python helpers *)

Max(a, b) == IF a >= b THEN a ELSE b
Min(a, b) == IF a <= b THEN a ELSE b

\* s[start:end] with 0 <= start and 0 <= end
Slice(s, start, end) == SubSeq(s, start + 1, Min(end, Len(s)))

\* x in s, for a list s
InSeq(x, s) == \E i \in DOMAIN s : s[i] = x

IsSpace(t) == t \in {" ", "\n", "\n\n"}

RECURSIVE LStrip(_)
LStrip(s) == IF s = <<>> THEN s
             ELSE IF IsSpace(Head(s)) THEN LStrip(Tail(s)) ELSE s

RECURSIVE RStrip(_)
RStrip(s) == IF s = <<>> THEN s
             ELSE IF IsSpace(s[Len(s)]) THEN RStrip(SubSeq(s, 1, Len(s) - 1)) ELSE s

\* str.strip()
Strip(s) == RStrip(LStrip(s))

\* str.lower() of one item or character
LowerOf(t) == CASE t = "Award," -> "award,"
                [] t = "Y" -> "y"
                [] t = "N" -> "n"
                [] OTHER -> t

\* str.lower()
Lower(s) == [i \in DOMAIN s |-> LowerOf(s[i])]

\* the outcome of a call: a returned value, or a raised exception (with the
\* status code of an HTTPException)
Returned(value) == [raised |-> "none", status_code |-> 0, value |-> value]
Raised(exception, code) == [raised |-> exception, status_code |-> code, value |-> <<>>]

\* sub in s, for strings
Contains(s, sub) ==
    \E i \in 0..(Len(s) - Len(sub)) : SubSeq(s, i + 1, i + Len(sub)) = sub

-----------------------------------------------------------------------------
(* Documents *)

Items == {"Award,", "grant,", "advisory,", "awards,", "x,", "\n\n"}

RECURSIVE SeqsUpTo(_, _)
SeqsUpTo(S, n) == IF n = 0 THEN {<<>>}
                  ELSE LET shorter == SeqsUpTo(S, n - 1)
                       IN  shorter \cup {Append(s, x) : s \in shorter, x \in S}

Texts == SeqsUpTo(Items, MaxLen)

-----------------------------------------------------------------------------
(* Criteria, patterns, weights *)

\* LLM_PROMPTS.keys(), in insertion order
CriteriaOrder == <<"awards", "membership", "press", "judging",
                   "original_contribution", "scholarly_articles",
                   "critical_employment", "high_remuneration">>

Criteria == {CriteriaOrder[i] : i \in DOMAIN CriteriaOrder}

\* CRITERIA_PATTERNS.keys(), in insertion order
PatternOrder == <<"awards", "membership", "press", "original_contribution",
                  "critical_employment">>

PatternCriteria == {PatternOrder[i] : i \in DOMAIN PatternOrder}

\* CRITERIA_PATTERNS restricted to the words of Items: per criterion the
\* ordered list of patterns, each the set of lower-case items at whose start
\* the regular expression matches.  The first pattern of a criterion carries
\* no (?i) flag, the second does.
CRITERIA_PATTERNS ==
    [awards                |-> << [ignorecase |-> FALSE, words |-> {"award,"}],
                                  [ignorecase |-> TRUE,  words |-> {"grant,"}] >>,
     membership            |-> << [ignorecase |-> FALSE, words |-> {"advisory,"}],
                                  [ignorecase |-> TRUE,  words |-> {}] >>,
     press                 |-> << [ignorecase |-> FALSE, words |-> {}],
                                  [ignorecase |-> TRUE,  words |-> {}] >>,
     original_contribution |-> << [ignorecase |-> FALSE, words |-> {}],
                                  [ignorecase |-> TRUE,  words |-> {}] >>,
     critical_employment   |-> << [ignorecase |-> FALSE, words |-> {}],
                                  [ignorecase |-> TRUE,  words |-> {}] >>]

\* re: does the pattern match at the start of item t
PatternHit(pattern, t) ==
    IF pattern.ignorecase THEN LowerOf(t) \in pattern.words
    ELSE t \in pattern.words

weights == [awards |-> 3, original_contribution |-> 3, critical_employment |-> 2,
            press |-> 2, judging |-> 2, scholarly_articles |-> 1,
            membership |-> 1, high_remuneration |-> 1]

-----------------------------------------------------------------------------
(* Pattern scanner *)

\* get_context_window(text, position, window_size); position counts from 0
get_context_window(txt, position, window_size) ==
    LET start == Max(0, position - window_size)
        end   == Min(Len(txt), position + window_size)
    IN  Strip(Slice(txt, start, end))

\* a scanner that forgets the "not in matches" test
AddMatch_NoDedup(matches, context) == Append(matches, context)

\* if context not in matches: matches.append(context)
AddMatch(matches, context) ==
    IF InSeq(context, matches) THEN matches ELSE Append(matches, context)

\* for match in re.finditer(pattern, text_lower): hits in position order,
\* the window cut from the original text at the hit's start
RECURSIVE ScanHits(_, _, _, _, _)
ScanHits(txt, text_lower, pattern, i, matches) ==
    IF i > Len(text_lower) THEN matches
    ELSE ScanHits(txt, text_lower, pattern, i + 1,
                  IF PatternHit(pattern, text_lower[i])
                  THEN AddMatch(matches, get_context_window(txt, i - 1, WindowSize))
                  ELSE matches)

\* for pattern in patterns: patterns in catalog order
RECURSIVE ScanPatterns(_, _, _, _, _)
ScanPatterns(txt, text_lower, patterns, k, matches) ==
    IF k > Len(patterns) THEN matches
    ELSE ScanPatterns(txt, text_lower, patterns, k + 1,
                      ScanHits(txt, text_lower, patterns[k], 1, matches))

rule_based_scan(txt) ==
    LET text_lower == Lower(txt)
    IN  [c \in PatternCriteria |->
            ScanPatterns(txt, text_lower, CRITERIA_PATTERNS[c], 1, <<>>)]

-----------------------------------------------------------------------------
(* Section extraction *)

\* the header keywords that occur as substrings of a lower-case item
HeadersIn(t) == CASE t = "awards,"   -> {"awards"}
                  [] t = "advisory," -> {"advisory"}
                  [] OTHER           -> {}

\* text_lower.find(header): offset from 0 of the first occurrence, or -1
FindHeader(text_lower, header) ==
    LET at == {i \in DOMAIN text_lower : header \in HeadersIn(text_lower[i])}
    IN  IF at = {} THEN -1 ELSE (CHOOSE i \in at : \A j \in at : i <= j) - 1

\* text_lower.find('\n\n', start)
FindBlankLine(text_lower, start) ==
    LET at == {i \in DOMAIN text_lower : i - 1 >= start /\ text_lower[i] = "\n\n"}
    IN  IF at = {} THEN -1 ELSE (CHOOSE i \in at : \A j \in at : i <= j) - 1

RECURSIVE ExtractFrom(_, _, _)
ExtractFrom(txt, headers, h) ==
    IF h > Len(headers) THEN <<>>
    ELSE LET text_lower == Lower(txt)
             start == FindHeader(text_lower, headers[h])
             end   == FindBlankLine(text_lower, start)
         IN  IF start # -1
             THEN IF end # -1 THEN Strip(Slice(txt, start, end))
                  ELSE Strip(Slice(txt, start, Len(txt)))
             ELSE ExtractFrom(txt, headers, h + 1)

extract_section(txt, headers) == ExtractFrom(txt, headers, 1)

\* validate_with_llm: the section_context dictionary (four keys)
section_context(full_text) ==
    [awards     |-> extract_section(full_text, <<"awards", "honors", "recognition">>),
     membership |-> extract_section(full_text, <<"membership", "leadership", "advisory">>),
     press      |-> extract_section(full_text, <<"media", "publications", "press">>),
     original_contribution |->
         extract_section(full_text, <<"innovations", "contributions", "patents">>)]

\* dict.get(key, default)
Get(d, key, default) == IF key \in DOMAIN d THEN d[key] ELSE default

\* context = section_context.get(criterion, full_text[:1000])
FallbackContext(criterion, full_text) ==
    Get(section_context(full_text), criterion, Slice(full_text, 0, PrefixLen))

\* f"Section: {context[:250]}..."
SectionEntry(context) ==
    <<"Section: ">> \o Slice(context, 0, SectionLen) \o <<"...">>

\* a validator that runs the section fallback for every criterion
FallbackDue_Always(validated) == TRUE

\* if not validated_matches:
FallbackDue(validated) == validated = <<>>

-----------------------------------------------------------------------------
(* Validation oracle client *)

\* What one requests.post can bring: a raised RequestException (connection
\* error, timeout after 15 s), a reply with a status code, and for status 200
\* a JSON body that is a list holding a record with "generated_text", a body
\* without that key, or an empty list.
OracleOutcomes ==
    { [exc |-> "none", status_code |-> 200, json |-> "ok",
       generated_text |-> <<" ", "Y", "e", "s">>],
      [exc |-> "none", status_code |-> 200, json |-> "ok",
       generated_text |-> <<"N", "o">>],
      [exc |-> "none", status_code |-> 503, json |-> "ok", generated_text |-> <<>>],
      [exc |-> "RequestException", status_code |-> 0, json |-> "ok",
       generated_text |-> <<>>],
      [exc |-> "none", status_code |-> 200, json |-> "no_key", generated_text |-> <<>>],
      [exc |-> "none", status_code |-> 200, json |-> "empty_list",
       generated_text |-> <<>>] }

ErrorPrefix == <<"e", "r", "r", "o", "r", ":", " ">>

\* "error: api_failure"
ApiFailure == ErrorPrefix \o <<"a", "p", "i", "_", "f", "a", "i", "l", "u", "r", "e">>

\* "error: network_failure"
NetworkFailure ==
    ErrorPrefix \o <<"n", "e", "t", "w", "o", "r", "k", "_",
                     "f", "a", "i", "l", "u", "r", "e">>

\* "error: invalid_response"
InvalidResponse ==
    ErrorPrefix \o <<"i", "n", "v", "a", "l", "i", "d", "_",
                     "r", "e", "s", "p", "o", "n", "s", "e">>

\* f"error: {str(e)}" for the IndexError of [][0]
IndexErrorText ==
    ErrorPrefix \o <<"l", "i", "s", "t", " ", "i", "n", "d", "e", "x", " ",
                     "o", "u", "t", " ", "o", "f", " ", "r", "a", "n", "g", "e">>

\* a client without the except clauses: the exceptions of the request and
\* of the reply's decoding escape
query_llm_Uncaught(o) ==
    IF o.exc = "RequestException" THEN Raised("RequestException", 0)
    ELSE IF o.status_code # 200 THEN Returned(ApiFailure)
    ELSE IF o.json = "no_key" THEN Raised("KeyError", 0)
    ELSE IF o.json = "empty_list" THEN Raised("IndexError", 0)
    ELSE Returned(Strip(Lower(o.generated_text)))

\* query_llm(prompt): what the call brings for one outcome of the request;
\* every exception is caught and turned into an "error: ..." string
query_llm(o) ==
    IF o.exc = "RequestException" THEN Returned(NetworkFailure)
    ELSE IF o.status_code # 200 THEN Returned(ApiFailure)
    ELSE IF o.json = "no_key" THEN Returned(InvalidResponse)
    ELSE IF o.json = "empty_list" THEN Returned(IndexErrorText)
    ELSE Returned(Strip(Lower(o.generated_text)))

\* validate_match(criterion, text): "yes" in response.lower(); an exception
\* of query_llm passes through
validate_match(criterion, excerpt, o) ==
    LET response == query_llm(o)
    IN  IF response.raised # "none" THEN response
        ELSE Returned(Contains(Lower(response.value), <<"y", "e", "s">>))

\* the request did not bring a well-formed reply (the branches of query_llm
\* that return an "error: ..." string)
OracleFailed(o) ==
    o.exc # "none" \/ o.status_code # 200 \/ o.json # "ok"

-----------------------------------------------------------------------------
(* Rating aggregator *)

\* a scorer that adds the lengths of the lists
RuleScore_Lengths(rule, keys, k) ==
    LET RECURSIVE Go(_)
        Go(j) == IF j > Len(keys) THEN 0
                 ELSE (IF keys[j] \in DOMAIN rule THEN Len(rule[keys[j]]) ELSE 0)
                      + Go(j + 1)
    IN  Go(k)

\* sum(len(v) > 0 for v in rule_matches.values())
RECURSIVE RuleScore(_, _, _)
RuleScore(rule, keys, k) ==
    IF k > Len(keys) THEN 0
    ELSE (IF keys[k] \in DOMAIN rule /\ Len(rule[keys[k]]) > 0 THEN 1 ELSE 0)
         + RuleScore(rule, keys, k + 1)

RECURSIVE LlmScoreFrom(_, _)
LlmScoreFrom(matches, k) ==
    IF k > Len(CriteriaOrder) THEN 0
    ELSE (IF CriteriaOrder[k] \in DOMAIN matches
          THEN weights[CriteriaOrder[k]] * Len(matches[CriteriaOrder[k]]) ELSE 0)
         + LlmScoreFrom(matches, k + 1)

\* a scorer that counts every confirmed match once
calculate_llm_score_Unweighted(matches) ==
    LET RECURSIVE Go(_)
        Go(k) == IF k > Len(CriteriaOrder) THEN 0
                 ELSE Len(matches[CriteriaOrder[k]]) + Go(k + 1)
    IN  Go(1)

\* sum(weights[c] * len(m) for c, m in matches.items())
calculate_llm_score(matches) == LlmScoreFrom(matches, 1)

\* an aggregator whose combined rating reuses the oracle thresholds 7 and 4
calculate_ratings_SameThresholds(rule, llm) ==
    LET rule_score == RuleScore(rule, CriteriaOrder, 1)
        llm_score  == calculate_llm_score(llm)
    IN  << IF rule_score >= 4 THEN "high" ELSE IF rule_score >= 2 THEN "medium" ELSE "low",
           IF llm_score >= 7 THEN "high" ELSE IF llm_score >= 4 THEN "medium" ELSE "low",
           IF llm_score >= 7 THEN "high" ELSE IF llm_score >= 4 THEN "medium" ELSE "low" >>

\* calculate_ratings(rule_matches, llm_matches)
calculate_ratings(rule, llm) ==
    LET rule_score == RuleScore(rule, CriteriaOrder, 1)
        llm_score  == calculate_llm_score(llm)
    IN  << IF rule_score >= 4 THEN "high" ELSE IF rule_score >= 2 THEN "medium" ELSE "low",
           IF llm_score >= 7 THEN "high" ELSE IF llm_score >= 4 THEN "medium" ELSE "low",
           IF llm_score >= 5 THEN "high" ELSE IF llm_score >= 3 THEN "medium" ELSE "low" >>

-----------------------------------------------------------------------------
(* Document ingestion *)

\* The uploads: a file name's extension, whether the parser library rejects
\* the bytes, and the text the parser extracts from them otherwise.
Files ==
    {[ext |-> e, corrupt |-> FALSE, content |-> t] :
        e \in {".pdf", ".docx", ".txt"}, t \in Texts}
    \cup {[ext |-> e, corrupt |-> TRUE, content |-> <<>>] : e \in {".pdf", ".docx"}}

\* extract_pdf_text: PdfReadError becomes HTTPException(400)
extract_pdf_text(file) ==
    IF file.corrupt THEN Raised("HTTPException", 400) ELSE Returned(file.content)

\* extract_docx_text: the library's exception escapes
extract_docx_text(file) ==
    IF file.corrupt THEN Raised("Exception", 0) ELSE Returned(file.content)

\* process_cv: any exception of the body, the HTTPException(400) of
\* extract_pdf_text included, is caught by "except Exception" and replaced
\* by HTTPException(500)
process_cv(file) ==
    LET body == IF file.ext = ".pdf" THEN extract_pdf_text(file)
                ELSE IF file.ext \in {".docx", ".doc"} THEN extract_docx_text(file)
                ELSE Raised("ValueError", 0)
    IN  IF body.raised # "none" THEN Raised("HTTPException", 500) ELSE body

-----------------------------------------------------------------------------
(* The request *)

NoCall == [criterion |-> "", excerpt |-> <<>>, failed |-> FALSE]
NoResult == [rule_based_matches |-> <<>>, rule_based_rating |-> "",
             llm_validated_matches |-> <<>>, llm_based_rating |-> "",
             combined_rating |-> ""]

\* AssessmentResult(...) of hybrid_evaluation
AssessmentResult(rule, llm, r) ==
    [rule_based_matches |-> rule, rule_based_rating |-> r[1],
     llm_validated_matches |-> llm, llm_based_rating |-> r[2],
     combined_rating |-> r[3]]

\* the kind of one oracle outcome, for the history variables
OracleKind(o) ==
    IF OracleFailed(o) THEN "failed"
    ELSE IF Contains(Lower(o.generated_text), <<"y", "e", "s">>) THEN "yes"
    ELSE "no"

\* the history of outcomes: "yes" while every call was answered yes, "failed"
\* while every call failed, "mixed" otherwise
Seen(seen, kind) ==
    IF seen = "none" /\ kind \in {"yes", "failed"} THEN kind
    ELSE IF seen = kind THEN seen
    ELSE "mixed"

Init ==
    /\ pc = "idle"
    /\ status = 0
    /\ text = <<>>
    /\ rule_matches = <<>>
    /\ llm_validated = <<>>
    /\ ci = 0
    /\ mi = 0
    /\ validated_matches = <<>>
    /\ ratings = <<>>
    /\ result = NoResult
    /\ lastCall = NoCall
    /\ oracleSeen = "none"
    /\ fallbacks = [c \in Criteria |-> 0]
    /\ calls = 0

\* POST /assess: process_cv, then hybrid_evaluation up to its first oracle
\* call: rule_based_scan and the set-up of validate_with_llm.  An
\* HTTPException of process_cv is re-raised and ends the request.
assess_o1a ==
    /\ pc = "idle"
    /\ \E file \in Files :
          LET cv == process_cv(file)
          IN  IF cv.raised = "HTTPException"
              THEN /\ pc' = "rejected"
                   /\ status' = cv.status_code
                   /\ UNCHANGED <<text, rule_matches, llm_validated, ci, mi>>
              ELSE /\ pc' = "validate"
                   /\ text' = cv.value
                   /\ rule_matches' = rule_based_scan(cv.value)
                   /\ llm_validated' = [c \in Criteria |-> <<>>]
                   /\ ci' = 1
                   /\ mi' = 1
                   /\ UNCHANGED status
    /\ UNCHANGED <<validated_matches, ratings, result, lastCall, oracleSeen,
                   fallbacks, calls>>

\* an exception that leaves hybrid_evaluation: assess_o1a answers with a
\* JSONResponse of status 500
Abort ==
    /\ pc' = "failed"
    /\ status' = 500
    /\ UNCHANGED <<llm_validated, ci, mi, validated_matches, ratings, result>>

\* rule_matches.get(criterion, [])
Candidates(criterion) == Get(rule_matches, criterion, <<>>)

\* for match in rule_matches.get(criterion, []): one validate_match call
ValidateRuleMatch ==
    /\ pc = "validate"
    /\ mi <= Len(Candidates(CriteriaOrder[ci]))
    /\ \E o \in OracleOutcomes :
          LET criterion == CriteriaOrder[ci]
              match == Candidates(criterion)[mi]
              valid == validate_match(criterion, match, o)
          IN  /\ IF valid.raised # "none" THEN Abort
                 ELSE /\ validated_matches' =
                            IF valid.value THEN Append(validated_matches, match)
                            ELSE validated_matches
                      /\ mi' = mi + 1
                      /\ UNCHANGED <<pc, status, llm_validated, ci, ratings, result>>
              /\ lastCall' = [criterion |-> criterion, excerpt |-> match,
                              failed |-> OracleFailed(o)]
              /\ oracleSeen' = Seen(oracleSeen, OracleKind(o))
    /\ calls' = calls + 1
    /\ UNCHANGED <<text, rule_matches, fallbacks>>

\* llm_validated[criterion] = validated_matches, then the next criterion, or
\* after the last one the return of validate_with_llm, calculate_ratings and
\* the AssessmentResult
StoreAndAdvance(validated) ==
    LET llm == [llm_validated EXCEPT ![CriteriaOrder[ci]] = validated]
    IN  /\ llm_validated' = llm
        /\ IF ci < Len(CriteriaOrder)
           THEN /\ ci' = ci + 1
                /\ mi' = 1
                /\ validated_matches' = <<>>
                /\ UNCHANGED <<pc, status, ratings, result>>
           ELSE /\ pc' = "done"
                /\ status' = 200
                /\ ratings' = calculate_ratings(rule_matches, llm)
                /\ result' = AssessmentResult(rule_matches, llm,
                                              calculate_ratings(rule_matches, llm))
                /\ validated_matches' = validated
                /\ UNCHANGED <<ci, mi>>

\* if not validated_matches: ... if context and validate_match(criterion, context)
SectionFallback ==
    /\ pc = "validate"
    /\ mi > Len(Candidates(CriteriaOrder[ci]))
    /\ FallbackDue(validated_matches)
    /\ FallbackContext(CriteriaOrder[ci], text) # <<>>
    /\ \E o \in OracleOutcomes :
          LET criterion == CriteriaOrder[ci]
              context == FallbackContext(criterion, text)
              valid == validate_match(criterion, context, o)
          IN  /\ IF valid.raised # "none" THEN Abort
                 ELSE StoreAndAdvance(
                          IF valid.value
                          THEN Append(validated_matches, SectionEntry(context))
                          ELSE validated_matches)
              /\ lastCall' = [criterion |-> criterion, excerpt |-> context,
                              failed |-> OracleFailed(o)]
              /\ oracleSeen' = Seen(oracleSeen, OracleKind(o))
              /\ fallbacks' = [fallbacks EXCEPT ![criterion] = @ + 1]
    /\ UNCHANGED <<text, rule_matches, calls>>

\* a criterion that ends without a fallback call: some match was confirmed,
\* or the context is empty
SkipFallback ==
    /\ pc = "validate"
    /\ mi > Len(Candidates(CriteriaOrder[ci]))
    /\ ~(FallbackDue(validated_matches) /\ FallbackContext(CriteriaOrder[ci], text) # <<>>)
    /\ StoreAndAdvance(validated_matches)
    /\ UNCHANGED <<text, rule_matches, lastCall, oracleSeen, fallbacks, calls>>

Next == assess_o1a \/ ValidateRuleMatch \/ SectionFallback \/ SkipFallback

Spec == Init /\ [][Next]_vars

-----------------------------------------------------------------------------
(* calculate_ratings on arbitrary mappings *)

RECURSIVE TotalLen(_, _, _)
TotalLen(m, keys, k) ==
    IF k > Len(keys) THEN 0 ELSE Len(m[keys[k]]) + TotalLen(m, keys, k + 1)

InitRatings ==
    /\ pc = "ratings"
    /\ status = 0
    /\ text = <<>>
    /\ rule_matches = [c \in PatternCriteria |-> <<>>]
    /\ llm_validated = [c \in Criteria |-> <<>>]
    /\ ci = 0
    /\ mi = 0
    /\ validated_matches = <<>>
    /\ ratings = calculate_ratings([c \in PatternCriteria |-> <<>>],
                                   [c \in Criteria |-> <<>>])
    /\ result = NoResult
    /\ lastCall = NoCall
    /\ oracleSeen = "none"
    /\ fallbacks = [c \in Criteria |-> 0]
    /\ calls = 0

\* one more candidate match in the first argument
AddCandidate ==
    /\ pc = "ratings"
    /\ TotalLen(rule_matches, PatternOrder, 1) < MaxCandidates
    /\ \E c \in PatternCriteria :
          LET rule == [rule_matches EXCEPT
                          ![c] = Append(@, <<"x,", "#", Len(@)>>)]
          IN  /\ rule_matches' = rule
              /\ ratings' = calculate_ratings(rule, llm_validated)
    /\ UNCHANGED <<pc, status, text, llm_validated, ci, mi, validated_matches,
                   result, lastCall, oracleSeen, fallbacks, calls>>

\* one more confirmed match in the second argument
AddConfirmed ==
    /\ pc = "ratings"
    /\ TotalLen(llm_validated, CriteriaOrder, 1) < MaxConfirmed
    /\ \E c \in Criteria :
          LET llm == [llm_validated EXCEPT
                         ![c] = Append(@, <<"x,", "#", Len(@)>>)]
          IN  /\ llm_validated' = llm
              /\ ratings' = calculate_ratings(rule_matches, llm)
    /\ UNCHANGED <<pc, status, text, rule_matches, ci, mi, validated_matches,
                   result, lastCall, oracleSeen, fallbacks, calls>>

NextRatings == AddCandidate \/ AddConfirmed

SpecRatings == InitRatings /\ [][NextRatings]_vars

-----------------------------------------------------------------------------
(* Properties *)

\* the set of the elements of a list
Range(s) == {s[i] : i \in DOMAIN s}

\* an excerpt is reported in a list of confirmed matches: as it is, or as
\* the entry derived from it
Reported(excerpt, list) ==
    \E i \in DOMAIN list : list[i] = excerpt \/ list[i] = SectionEntry(excerpt)

\* an entry of the form "Section: ...", the mark of a fallback confirmation
IsSectionEntry(e) == Len(e) >= 2 /\ e[1] = "Section: " /\ e[Len(e)] = "..."

\* the weighted sum of the confirmed matches, weight by weight
WeightedConfirmed(m) ==
    3 * Len(m["awards"]) + 3 * Len(m["original_contribution"])
    + 2 * Len(m["critical_employment"]) + 2 * Len(m["press"]) + 2 * Len(m["judging"])
    + Len(m["scholarly_articles"]) + Len(m["membership"]) + Len(m["high_remuneration"])

\* the number of criteria with at least one candidate match
NonEmptyCriteria(m) == Cardinality({c \in DOMAIN m : m[c] # <<>>})

RatingRank(r) == CASE r = "low" -> 1 [] r = "medium" -> 2 [] r = "high" -> 3

\* C1: the result of hybrid_evaluation has all eight criteria as keys of
\* rule_based_matches and of llm_validated_matches.
C1_AllCriteriaAreKeys ==
    pc = "done" =>
        /\ DOMAIN result.rule_based_matches = Criteria
        /\ DOMAIN result.llm_validated_matches = Criteria

\* C2 as claimed: the combined rating is high when the rule-based or the
\* oracle-based rating is high, and the lower of the two otherwise.
C2_HighIfEitherElseLower ==
    pc = "ratings" =>
        ratings[3] = IF ratings[1] = "high" \/ ratings[2] = "high" THEN "high"
                     ELSE IF RatingRank(ratings[1]) <= RatingRank(ratings[2])
                          THEN ratings[1] ELSE ratings[2]

\* C2 amended: the combined rating is decided by the oracle's weighted score
\* S alone: high for S >= 5, medium for S in 3..4, low for S <= 2; so it is
\* high whenever the oracle-based rating is high, whatever the rule-based one.
C2_CombinedFromOracleScore ==
    pc = "ratings" =>
        LET S == WeightedConfirmed(llm_validated)
        IN  /\ ratings[3] = "high" <=> S >= 5
            /\ ratings[3] = "medium" <=> S \in 3..4
            /\ ratings[3] = "low" <=> S <= 2
            /\ ratings[2] = "high" => ratings[3] = "high"

\* C2 witness: rule-based low, oracle-based medium, combined high.
C2_Witness ==
    pc = "ratings" /\ ratings = <<"low", "medium", "high">>

\* C3: an excerpt whose oracle call failed is retained in the reported
\* confirmed-match list of its criterion.
C3_FailedExcerptRetained ==
    (pc = "done" /\ lastCall.failed) =>
        Reported(lastCall.excerpt, result.llm_validated_matches[lastCall.criterion])

\* C4: for a non-empty document, every criterion without a confirmed
\* candidate gets exactly one fallback validation, and when the oracle
\* answers yes to every call every criterion ends with a confirmed match.
C4_FallbackForEveryUnconfirmed ==
    (pc = "done" /\ text # <<>>) =>
        /\ \A c \in Criteria :
              (Range(llm_validated[c]) \cap Range(Candidates(c)) = {})
                  => fallbacks[c] = 1
        /\ oracleSeen = "yes" => \A c \in Criteria : llm_validated[c] # <<>>

\* C5: the rule-based rating is decided by the number n of criteria with a
\* non-empty candidate list: high for n >= 4, medium for 2..3, low for 0..1.
C5_RuleRatingFromCount ==
    pc = "ratings" =>
        LET n == NonEmptyCriteria(rule_matches)
        IN  ratings[1] = IF n >= 4 THEN "high"
                         ELSE IF n \in 2..3 THEN "medium" ELSE "low"

\* C5 witness: four candidate matches spread over fewer than four criteria.
C5_Witness ==
    /\ pc = "ratings"
    /\ TotalLen(rule_matches, PatternOrder, 1) >= 4
    /\ NonEmptyCriteria(rule_matches) = 3
    /\ ratings[1] = "medium"

\* C6: the oracle-based rating is decided by the weighted sum S of the
\* confirmed matches: high for S >= 7, medium for 4..6, low for S <= 3.
C6_OracleRatingFromWeightedSum ==
    pc = "ratings" =>
        LET S == WeightedConfirmed(llm_validated)
        IN  ratings[2] = IF S >= 7 THEN "high"
                         ELSE IF S \in 4..6 THEN "medium" ELSE "low"

\* C6 witness: three confirmed matches weighing 3 + 3 + 1 = 7.
C6_Witness ==
    /\ pc = "ratings"
    /\ WeightedConfirmed(llm_validated) = 7
    /\ TotalLen(llm_validated, CriteriaOrder, 1) = 3
    /\ ratings[2] = "high"

\* C7: failing oracle calls never abort the assessment: no exception leaves
\* hybrid_evaluation, every candidate is submitted, the result is complete;
\* when every call failed nothing is confirmed, the oracle-based rating is low
\* and the candidates and the rule-based rating are those of the scan.
C7_OracleFailureTolerated ==
    /\ pc # "failed"
    /\ pc = "done" =>
          /\ status = 200
          /\ calls = TotalLen(rule_matches, PatternOrder, 1)
          /\ DOMAIN result.llm_validated_matches = Criteria
          /\ result.rule_based_matches = rule_based_scan(text)
          /\ result.rule_based_rating =
                (IF NonEmptyCriteria(rule_based_scan(text)) >= 4 THEN "high"
                 ELSE IF NonEmptyCriteria(rule_based_scan(text)) >= 2 THEN "medium"
                 ELSE "low")
          /\ {result.llm_based_rating, result.combined_rating}
                \subseteq {"low", "medium", "high"}
    /\ (pc = "done" /\ oracleSeen \in {"none", "failed"}) =>
          /\ \A c \in Criteria : result.llm_validated_matches[c] = <<>>
          /\ result.llm_based_rating = "low"

\* C7 witness: an assessment that ended although every oracle call failed,
\* candidate validations and fallbacks among them.
C7_Witness ==
    /\ pc = "done"
    /\ oracleSeen = "failed"
    /\ calls >= 2
    /\ \E c \in Criteria : fallbacks[c] = 1

\* C8 as claimed: every confirmed match of a criterion is one of its
\* candidate matches.
C8_ConfirmedAmongCandidates ==
    pc = "done" =>
        \A c \in Criteria :
            Range(result.llm_validated_matches[c])
                \subseteq Range(Get(result.rule_based_matches, c, <<>>))

\* C8 amended: every confirmed match of a criterion is one of its candidate
\* matches or the single "Section: ..." entry of the fallback, which is then
\* the only entry of that criterion.
C8_ConfirmedAmongCandidatesOrSection ==
    pc = "done" =>
        \A c \in Criteria :
            LET confirmed == result.llm_validated_matches[c]
            IN  \A i \in DOMAIN confirmed :
                    \/ InSeq(confirmed[i], Get(result.rule_based_matches, c, <<>>))
                    \/ IsSectionEntry(confirmed[i]) /\ Len(confirmed) = 1

\* C8 witness: a criterion with candidates, none confirmed, reports the
\* fallback entry, and another criterion reports a candidate.
C8_Witness ==
    /\ pc = "done"
    /\ Candidates("awards") # <<>>
    /\ Len(result.llm_validated_matches["awards"]) = 1
    /\ IsSectionEntry(result.llm_validated_matches["awards"][1])
    /\ Candidates("membership") # <<>>
    /\ result.llm_validated_matches["membership"] = Candidates("membership")

\* C9: a request whose ingestion failed is rejected with a client error, and
\* the core never ran for it.
C9_RejectedWithClientError ==
    pc = "rejected" =>
        /\ status \in 400..499
        /\ result = NoResult
        /\ rule_matches = <<>>
        /\ calls = 0
        /\ lastCall = NoCall

\* the hits of criterion c in the text: (pattern index, item index)
Hits(c) ==
    {h \in (DOMAIN CRITERIA_PATTERNS[c]) \X (DOMAIN text) :
        PatternHit(CRITERIA_PATTERNS[c][h[1]], LowerOf(text[h[2]]))}

WindowOf(h) == get_context_window(text, h[2] - 1, WindowSize)

\* catalog order of the patterns, then position order
SeenBefore(h1, h2) == h1[1] < h2[1] \/ (h1[1] = h2[1] /\ h1[2] < h2[2])

\* C10: the candidate list of every criterion holds exactly the windows of
\* its hits, each once, in first-seen order, and a second scan of the same
\* text returns the same mapping.
C10_ScanDedupOrdered ==
    pc \in {"validate", "done"} =>
        /\ \A c \in PatternCriteria :
              LET m == rule_matches[c]
              IN  /\ \A a, b \in DOMAIN m : a # b => m[a] # m[b]
                  /\ Range(m) = {WindowOf(h) : h \in Hits(c)}
                  /\ \A a, b \in DOMAIN m :
                        a < b => \E h \in Hits(c) :
                                    /\ WindowOf(h) = m[a]
                                    /\ \A g \in Hits(c) :
                                          WindowOf(g) = m[b] => SeenBefore(h, g)
        /\ rule_based_scan(text) = rule_matches

\* C10 witness: three hits of one criterion, the last two with the same
\* window, which is listed once, after the window of the first hit.
C10_Witness ==
    /\ pc = "validate"
    /\ Cardinality(Hits("awards")) = 3
    /\ Len(rule_matches["awards"]) = 2
    /\ \E h, g \in Hits("awards") :
          /\ h # g
          /\ WindowOf(h) = WindowOf(g)
          /\ rule_matches["awards"][2] = WindowOf(h)

====
